---- MODULE Spec2Model ----
(***************************************************************************)
(* Model of update_publications.py (v2.1, scripts/update_publications.py;  *)
(* the v2 script update_publications.py is the same pipeline run with an   *)
(* id and without the name fallback).                                      *)
(*                                                                         *)
(* A Python str is a sequence of one-character strings.  The characters     *)
(* "TAB" and "ENDASH" stand for U+0009 and U+2013.  A mapping field that is *)
(* absent, None or "" is the empty sequence: every read in the code is      *)
(* `x.get(k) or ""` (or a truthiness test), which makes the three equal.    *)
(***************************************************************************)
EXTENDS Integers, Sequences, FiniteSets, TLC

VARIABLES
    args,        \* parsed command line
    pc,          \* position in main()
    attempts,    \* calls of the identifier lookup made so far
    waits,       \* seconds slept by the retry policy, in order
    id_ok,       \* the identifier lookup returned a profile
    searched,    \* scholarly.search_author(name) was called
    cand,        \* candidates of the name search consumed so far
    author,      \* "none", or how the profile was obtained: "by_id" / "by_name"
    raw_count,   \* len(author["publications"])
    i,           \* raw records taken by the per-record loop (= detail fetches)
    pubs,        \* the list `pubs`
    skipped,     \* the list `skipped` (reasons only)
    opened,      \* the files opened for writing so far: subset of {"out", "meta"}
    out_file,    \* the list dumped to args.out
    meta_file,   \* the mapping dumped to args.meta
    exit_code,   \* process exit status, meaningful once pc = "exit"
    fpc,         \* position of the pure-function harness
    bib,         \* argument `bib` of _pick_venue / _best_url
    pfull,       \* argument `pfull` of _best_url
    result       \* value returned by the function under check

vars == <<args, pc, attempts, waits, id_ok, searched, cand, author, raw_count, i,
          pubs, skipped, opened, out_file, meta_file, exit_code, fpc, bib, pfull, result>>

mainVars == <<args, pc, attempts, waits, id_ok, searched, cand, author, raw_count, i,
              pubs, skipped, opened, out_file, meta_file, exit_code>>

fnVars == <<fpc, bib, pfull, result>>

-----------------------------------------------------------------------------
(* Bounds of the model *)

MaxRaw == 2          \* longest raw publication list
MaxCands == 1        \* most candidates the name search yields
MaxSelected == 1     \* largest --selected

(* Program constants *)

MaxAttempts == 5     \* stop_after_attempt(5)
WaitMultiplier == 1  \* wait_exponential(multiplier=1, ...)
WaitMin == 2         \* wait_exponential(min=2)
WaitMax == 30        \* wait_exponential(max=30)
SampleLen == 20      \* skipped[:20]
ExitOk == 0          \* falling off the end of main()
ExitResolution == 1  \* sys.exit(1); also the status of an uncaught exception
ExitValidation == 2  \* sys.exit(2)

-----------------------------------------------------------------------------
(* Strings *)

Whitespace == {" ", "TAB"}

UpperChars == <<"A","B","C","D","E","F","G","H","I","J","K","L","M",
                "N","O","P","Q","R","S","T","U","V","W","X","Y","Z">>
LowerChars == <<"a","b","c","d","e","f","g","h","i","j","k","l","m",
                "n","o","p","q","r","s","t","u","v","w","x","y","z">>
DigitChars == <<"0","1","2","3","4","5","6","7","8","9">>

\* Characters in code-point order (those the model's titles use).
CodeOrder == <<"TAB", " ">> \o DigitChars \o UpperChars \o LowerChars

Code(c) == CHOOSE k \in 1..Len(CodeOrder) : CodeOrder[k] = c

LowerChar(c) ==
    IF \E k \in 1..Len(UpperChars) : UpperChars[k] = c
    THEN LowerChars[CHOOSE k \in 1..Len(UpperChars) : UpperChars[k] = c]
    ELSE c

\* str.lower()
Lower(s) == [k \in 1..Len(s) |-> LowerChar(s[k])]

RECURSIVE LStrip(_)
LStrip(s) == IF s # <<>> /\ Head(s) \in Whitespace THEN LStrip(Tail(s)) ELSE s

RECURSIVE RStrip(_)
RStrip(s) ==
    IF s # <<>> /\ s[Len(s)] \in Whitespace THEN RStrip(SubSeq(s, 1, Len(s) - 1)) ELSE s

\* str.strip()
Strip(s) == RStrip(LStrip(s))

\* str.startswith(p)
StartsWith(s, p) == Len(s) >= Len(p) /\ SubSeq(s, 1, Len(p)) = p

\* `tok in s`
Contains(s, tok) ==
    \E k \in 0..(Len(s) - Len(tok)) : SubSeq(s, k + 1, k + Len(tok)) = tok

\* re.sub(r"\s+", " ", s)
RECURSIVE CollapseWs(_)
CollapseWs(s) ==
    IF s = <<>> THEN <<>>
    ELSE IF Head(s) \in Whitespace
         THEN <<" ">> \o CollapseWs(LStrip(s))
         ELSE <<Head(s)>> \o CollapseWs(Tail(s))

\* str.isdigit()
IsDigit(s) ==
    /\ s # <<>>
    /\ \A k \in 1..Len(s) : \E d \in 1..Len(DigitChars) : DigitChars[d] = s[k]

DigitVal(c) == (CHOOSE d \in 1..Len(DigitChars) : DigitChars[d] = c) - 1

\* int(s) for a string of digits
RECURSIVE ToInt(_)
ToInt(s) == IF s = <<>> THEN 0 ELSE 10 * ToInt(SubSeq(s, 1, Len(s) - 1)) + DigitVal(s[Len(s)])

\* s1 < s2 on str: lexicographic by code point
RECURSIVE StrLess(_, _)
StrLess(s1, s2) ==
    IF s2 = <<>> THEN FALSE
    ELSE IF s1 = <<>> THEN TRUE
    ELSE IF Head(s1) # Head(s2) THEN Code(Head(s1)) < Code(Head(s2))
    ELSE StrLess(Tail(s1), Tail(s2))

Max(a, b) == IF a >= b THEN a ELSE b
Min(a, b) == IF a <= b THEN a ELSE b

RECURSIVE Pow2(_)
Pow2(n) == IF n = 0 THEN 1 ELSE 2 * Pow2(n - 1)

-----------------------------------------------------------------------------
(* Pure helpers of the script *)

\* _year_int(bib)
year_int(b) ==
    LET y == Strip(b.pub_year) IN IF IsDigit(y) THEN ToInt(y) ELSE 0

\* Deduplication key of a record: (r["title"].strip().lower(), r.get("year", 0))
DedupKey(r) == <<Lower(Strip(r.title)), r.year>>

\* The dedup loop: `seen` is the set of keys met so far, `acc` the list `deduped`.
RECURSIVE DedupFrom(_, _, _)
DedupFrom(p, seen, acc) ==
    IF p = <<>> THEN acc
    ELSE IF DedupKey(Head(p)) \in seen
         THEN DedupFrom(Tail(p), seen, acc)
         ELSE DedupFrom(Tail(p), seen \cup {DedupKey(Head(p))}, Append(acc, Head(p)))

\* Variant: the key keeps the title's case.
RECURSIVE DedupCaseSensitiveFrom(_, _, _)
DedupCaseSensitiveFrom(p, seen, acc) ==
    IF p = <<>> THEN acc
    ELSE IF <<Strip(Head(p).title), Head(p).year>> \in seen
         THEN DedupCaseSensitiveFrom(Tail(p), seen, acc)
         ELSE DedupCaseSensitiveFrom(Tail(p), seen \cup {<<Strip(Head(p).title), Head(p).year>>},
                                     Append(acc, Head(p)))

DedupCaseSensitive(p) == DedupCaseSensitiveFrom(p, {}, <<>>)

Dedup(p) == DedupFrom(p, {}, <<>>)

\* Sort key of a record: (r.get("year", 0), r.get("title", "")), compared as tuples
KeyLess(r1, r2) ==
    \/ r1.year < r2.year
    \/ r1.year = r2.year /\ StrLess(r1.title, r2.title)

\* insertion of r behind every record whose key is not less than r's
RECURSIVE InsertDesc(_, _)
InsertDesc(sorted, r) ==
    IF sorted = <<>> THEN <<r>>
    ELSE IF KeyLess(Head(sorted), r) THEN <<r>> \o sorted
    ELSE <<Head(sorted)>> \o InsertDesc(Tail(sorted), r)

RECURSIVE SortFrom(_, _)
SortFrom(p, acc) == IF p = <<>> THEN acc ELSE SortFrom(Tail(p), InsertDesc(acc, Head(p)))

\* Variant: the sort key is the year alone.
SortByYearOnly(p) ==
    LET RECURSIVE Ins(_, _)
        Ins(sorted, r) ==
            IF sorted = <<>> THEN <<r>>
            ELSE IF Head(sorted).year < r.year THEN <<r>> \o sorted
            ELSE <<Head(sorted)>> \o Ins(Tail(sorted), r)
        RECURSIVE Go(_, _)
        Go(q, acc) == IF q = <<>> THEN acc ELSE Go(Tail(q), Ins(acc, Head(q)))
    IN Go(p, <<>>)

\* list.sort(key=..., reverse=True): descending, records of equal key keep their order
SortDesc(p) == SortFrom(p, <<>>)

\* Variant: `i <= nsel`.
MarkSelectedOffByOne(p, selected) ==
    LET nsel == Max(0, selected)
    IN [k \in 1..Len(p) |->
          [title |-> p[k].title, year |-> p[k].year, selected |-> (k - 1 <= nsel)]]

\* nsel = max(0, int(args.selected)); rec["selected"] = (i < nsel), i from 0
MarkSelected(p, selected) ==
    LET nsel == Max(0, selected)
    IN [k \in 1..Len(p) |->
          [title |-> p[k].title, year |-> p[k].year, selected |-> (k - 1 < nsel)]]

\* Variant: the shortfall is fatal without --strict too.
ExitStatusIgnoringStrict(written, raw, strict) ==
    IF written < raw THEN ExitValidation ELSE ExitOk

\* The exit status of a run that reached the validation
ExitStatus(written, raw, strict) ==
    IF written < raw /\ strict THEN ExitValidation ELSE ExitOk

\* meta["method"]
MetaMethod(a) == IF a.id THEN "id" ELSE "name+affil"

\* skipped[:20]
Take(s, n) == SubSeq(s, 1, Min(Len(s), n))

\* Variant: the wait is not raised to `min`.
WaitExponentialNoFloor(n) == Min(WaitMultiplier * Pow2(n - 1), WaitMax)

\* tenacity wait_exponential(multiplier, min, max) after failed attempt number n:
\* multiplier * 2^(n-1), kept within [min, max]
WaitExponential(n) == Max(Max(0, WaitMin), Min(WaitMultiplier * Pow2(n - 1), WaitMax))

\* Variant: one attempt more.
StopAfterSixAttempts(n) == n >= MaxAttempts + 1

\* stop_after_attempt(5): no further attempt once n attempts were made
StopAfterAttempt(n) == n >= MaxAttempts

\* _pick_venue(bib): the block-list
bad_tokens ==
    << <<"c","r","i","s"," ","p","k">>,
       <<"c","r","a","c","o","w"," ","u","n","i","v","e","r","s","i","t","y"," ","o","f"," ",
         "t","e","c","h","n","o","l","o","g","y"," ","ENDASH"," ","c","r","i","s"," ",
         "r","e","c","o","r","d">>,
       <<"c","r","a","c","o","w"," ","u","n","i","v","e","r","s","i","t","y"," ","o","f"," ",
         "t","e","c","h","n","o","l","o","g","y"," ","-"," ","c","r","i","s"," ",
         "r","e","c","o","r","d">>,
       <<"c","r","i","s"," ","r","e","c","o","r","d">>,
       <<"r","e","p","o","s","i","t","o","r","y">>,
       <<"r","e","p","o","z","y","t","o","r","i","u","m">>,
       <<"r","e","c","o","r","d">> >>

\* any(tok in low for tok in bad_tokens)
HasBadToken(low) == \E k \in 1..Len(bad_tokens) : Contains(low, bad_tokens[k])

\* the candidates of _pick_venue that pass both tests, in priority order
RECURSIVE FirstAccepted(_)
FirstAccepted(candidates) ==
    IF candidates = <<>> THEN <<>>
    ELSE IF Head(candidates) = <<>> THEN FirstAccepted(Tail(candidates))
    ELSE IF HasBadToken(Lower(Head(candidates))) THEN FirstAccepted(Tail(candidates))
    ELSE CollapseWs(Head(candidates))

\* _pick_venue(bib)
pick_venue(b) == FirstAccepted(<<Strip(b.journal), Strip(b.venue), Strip(b.conference)>>)

DoiOrgPrefix == <<"h","t","t","p","s",":","/","/","d","o","i",".","o","r","g","/">>
BareDoiPrefix == <<"1","0",".">>

\* the first truthy value among pfull's eprint_url, pub_url, author_pub_url
RECURSIVE FirstUrl(_)
FirstUrl(us) ==
    IF us = <<>> THEN <<>>
    ELSE IF Head(us) # <<>> THEN Head(us)
    ELSE FirstUrl(Tail(us))

AlternateUrl(pf) == FirstUrl(<<pf.eprint_url, pf.pub_url, pf.author_pub_url>>)

\* Variant: the bare 10. form is not recognised.
best_url_no_bare_form(pf, b) ==
    LET doi == Strip(b.doi)
    IN IF doi # <<>> /\ StartsWith(Lower(doi), DoiOrgPrefix) THEN doi
       ELSE AlternateUrl(pf)

\* _best_url(pfull, bib)
best_url(pf, b) ==
    LET doi == Strip(b.doi)
        d == Lower(doi)
    IN IF doi # <<>> /\ StartsWith(d, DoiOrgPrefix) THEN doi
       ELSE IF doi # <<>> /\ StartsWith(d, BareDoiPrefix) THEN DoiOrgPrefix \o doi
       ELSE AlternateUrl(pf)

-----------------------------------------------------------------------------
(* Inputs *)

\* --sleep: "finite" is any value time.sleep accepts after max(0.0, .) (negative
\* values and NaN are clamped to 0.0); "overflow" is a value beyond the platform
\* time_t (1e10, inf), for which time.sleep raises OverflowError.
SleepValues == {"finite", "overflow"}

ArgSets ==
    [id : BOOLEAN, name : BOOLEAN, strict : BOOLEAN, meta : BOOLEAN,
     selected : (-1)..MaxSelected, sleep : SleepValues]

\* bib["title"] of a filled publication
TitleInputs == {<<>>, <<" ">>, <<"a">>, <<" ", "A", " ">>, <<"b">>}

\* bib["pub_year"] of a filled publication, after str()
YearInputs == {<<>>, <<"n">>, <<" ", "2">>, <<"2">>}

NoMeta ==
    [method |-> "", raw_count_from_scholar |-> 0, written_count |-> 0,
     skipped_count |-> 0, skipped_reasons |-> <<>>]

MainInit ==
    /\ args \in ArgSets
    /\ pc = "resolve_id"
    /\ attempts = 0
    /\ waits = <<>>
    /\ id_ok = FALSE
    /\ searched = FALSE
    /\ cand = 0
    /\ author = "none"
    /\ raw_count = 0
    /\ i = 0
    /\ pubs = <<>>
    /\ skipped = <<>>
    /\ opened = {}
    /\ out_file = <<>>
    /\ meta_file = NoMeta
    /\ exit_code = ExitOk

FnIdle ==
    /\ fpc = "idle"
    /\ bib = <<>>
    /\ pfull = <<>>
    /\ result = <<>>

Init == MainInit /\ FnIdle

-----------------------------------------------------------------------------
(* main(): author resolution *)

\* `if args.id:` is false
NoId ==
    /\ pc = "resolve_id"
    /\ ~args.id
    /\ pc' = "resolve_name"
    /\ UNCHANGED fnVars
    /\ UNCHANGED <<args, attempts, waits, id_ok, searched, cand, author, raw_count, i,
                   pubs, skipped, opened, out_file, meta_file, exit_code>>

\* one call of fetch_author_by_id's body that returns the profile
IdLookupSucceeds ==
    /\ pc = "resolve_id"
    /\ args.id
    /\ ~StopAfterAttempt(attempts)
    /\ attempts' = attempts + 1
    /\ id_ok' = TRUE
    /\ author' = "by_id"
    /\ pc' = "resolve_name"
    /\ UNCHANGED fnVars
    /\ UNCHANGED <<args, waits, searched, cand, raw_count, i,
                   pubs, skipped, opened, out_file, meta_file, exit_code>>

\* one call that raises, followed by the backoff sleep before the next call
IdLookupFailsRetry ==
    /\ pc = "resolve_id"
    /\ args.id
    /\ ~StopAfterAttempt(attempts)
    /\ ~StopAfterAttempt(attempts + 1)
    /\ attempts' = attempts + 1
    /\ waits' = Append(waits, WaitExponential(attempts + 1))
    /\ UNCHANGED fnVars
    /\ UNCHANGED <<args, pc, id_ok, searched, cand, author, raw_count, i,
                   pubs, skipped, opened, out_file, meta_file, exit_code>>

\* the last allowed call raises: RetryError reaches main(), which catches it
IdLookupGivesUp ==
    /\ pc = "resolve_id"
    /\ args.id
    /\ ~StopAfterAttempt(attempts)
    /\ StopAfterAttempt(attempts + 1)
    /\ attempts' = attempts + 1
    /\ pc' = "resolve_name"
    /\ UNCHANGED fnVars
    /\ UNCHANGED <<args, waits, id_ok, searched, cand, author, raw_count, i,
                   pubs, skipped, opened, out_file, meta_file, exit_code>>

\* Variant: the result of the identifier lookup is not consulted.
ShouldSearchByNameAlways(a, au) == a.name

\* `if author is None and args.name:`
ShouldSearchByName(a, au) == au = "none" /\ a.name

\* fetch_author_by_name is entered: scholarly.search_author(name), re.compile
NameSearchStart ==
    /\ pc = "resolve_name"
    /\ ShouldSearchByName(args, author)
    /\ searched' = TRUE
    /\ pc' = "name_search"
    /\ UNCHANGED fnVars
    /\ UNCHANGED <<args, attempts, waits, id_ok, cand, author, raw_count, i,
                   pubs, skipped, opened, out_file, meta_file, exit_code>>

\* a candidate is skipped: its fill raised, or the pattern matched neither field
NameCandidateSkipped ==
    /\ pc = "name_search"
    /\ cand < MaxCands
    /\ cand' = cand + 1
    /\ UNCHANGED fnVars
    /\ UNCHANGED <<args, pc, attempts, waits, id_ok, searched, author, raw_count, i,
                   pubs, skipped, opened, out_file, meta_file, exit_code>>

\* a candidate matches and its publications are filled: it is returned
NameCandidateReturned ==
    /\ pc = "name_search"
    /\ cand < MaxCands
    /\ cand' = cand + 1
    /\ author' = "by_name"
    /\ pc' = "resolved"
    /\ UNCHANGED fnVars
    /\ UNCHANGED <<args, attempts, waits, id_ok, searched, raw_count, i,
                   pubs, skipped, opened, out_file, meta_file, exit_code>>

\* the candidates are exhausted: fetch_author_by_name returns None
NameSearchExhausted ==
    /\ pc = "name_search"
    /\ author' = "none"
    /\ pc' = "resolved"
    /\ UNCHANGED fnVars
    /\ UNCHANGED <<args, attempts, waits, id_ok, searched, cand, raw_count, i,
                   pubs, skipped, opened, out_file, meta_file, exit_code>>

\* search_author, re.compile or the candidate generator raises outside the try:
\* the exception leaves main() and the interpreter exits with status 1
NameSearchRaises ==
    /\ pc = "name_search"
    /\ pc' = "exit"
    /\ exit_code' = ExitResolution
    /\ UNCHANGED fnVars
    /\ UNCHANGED <<args, attempts, waits, id_ok, searched, cand, author, raw_count, i,
                   pubs, skipped, opened, out_file, meta_file>>

\* the name search is not entered
NoNameSearch ==
    /\ pc = "resolve_name"
    /\ ~ShouldSearchByName(args, author)
    /\ pc' = "resolved"
    /\ UNCHANGED fnVars
    /\ UNCHANGED <<args, attempts, waits, id_ok, searched, cand, author, raw_count, i,
                   pubs, skipped, opened, out_file, meta_file, exit_code>>

\* `if author is None:` sys.exit(1)
ResolutionFails ==
    /\ pc = "resolved"
    /\ author = "none"
    /\ pc' = "exit"
    /\ exit_code' = ExitResolution
    /\ UNCHANGED fnVars
    /\ UNCHANGED <<args, attempts, waits, id_ok, searched, cand, author, raw_count, i,
                   pubs, skipped, opened, out_file, meta_file>>

\* raw_list = author.get("publications", []) or []
ReadRawList ==
    /\ pc = "resolved"
    /\ author # "none"
    /\ \E n \in 0..MaxRaw : raw_count' = n
    /\ pc' = "loop"
    /\ UNCHANGED fnVars
    /\ UNCHANGED <<args, attempts, waits, id_ok, searched, cand, author, i,
                   pubs, skipped, opened, out_file, meta_file, exit_code>>

-----------------------------------------------------------------------------
(* main(): the per-record loop *)

\* scholarly.fill(p), or the normalization of its result, raises
FillRaises ==
    /\ pc = "loop"
    /\ i < raw_count
    /\ i' = i + 1
    /\ skipped' = Append(skipped, "exception")
    /\ UNCHANGED fnVars
    /\ UNCHANGED <<args, pc, attempts, waits, id_ok, searched, cand, author, raw_count,
                   pubs, opened, out_file, meta_file, exit_code>>

\* the filled record has no title after trimming
NoTitle ==
    /\ pc = "loop"
    /\ i < raw_count
    /\ \E t \in TitleInputs :
         /\ Strip(t) = <<>>
         /\ i' = i + 1
         /\ skipped' = Append(skipped, "no_title")
    /\ UNCHANGED fnVars
    /\ UNCHANGED <<args, pc, attempts, waits, id_ok, searched, cand, author, raw_count,
                   pubs, opened, out_file, meta_file, exit_code>>

\* What the except clause appends after pubs.append(rec): time.sleep(max(0.0,
\* args.sleep)) is inside the try, so its OverflowError is caught as well.
SkipAfterAppend(sleep) == IF sleep = "overflow" THEN <<"exception">> ELSE <<>>

\* the record is normalized and appended, then the loop sleeps
AppendRecord ==
    /\ pc = "loop"
    /\ i < raw_count
    /\ \E t \in TitleInputs, y \in YearInputs :
         /\ Strip(t) # <<>>
         /\ i' = i + 1
         /\ pubs' = Append(pubs, [title |-> Strip(t), year |-> year_int([pub_year |-> y])])
         /\ skipped' = skipped \o SkipAfterAppend(args.sleep)
    /\ UNCHANGED fnVars
    /\ UNCHANGED <<args, pc, attempts, waits, id_ok, searched, cand, author, raw_count,
                   opened, out_file, meta_file, exit_code>>

-----------------------------------------------------------------------------
(* main(): final assembly, output and validation *)

DedupStep ==
    /\ pc = "loop"
    /\ i = raw_count
    /\ pubs' = Dedup(pubs)
    /\ pc' = "sort"
    /\ UNCHANGED fnVars
    /\ UNCHANGED <<args, attempts, waits, id_ok, searched, cand, author, raw_count, i,
                   skipped, opened, out_file, meta_file, exit_code>>

SortStep ==
    /\ pc = "sort"
    /\ pubs' = SortDesc(pubs)
    /\ pc' = "select"
    /\ UNCHANGED fnVars
    /\ UNCHANGED <<args, attempts, waits, id_ok, searched, cand, author, raw_count, i,
                   skipped, opened, out_file, meta_file, exit_code>>

SelectStep ==
    /\ pc = "select"
    /\ pubs' = MarkSelected(pubs, args.selected)
    /\ pc' = "write_out"
    /\ UNCHANGED fnVars
    /\ UNCHANGED <<args, attempts, waits, id_ok, searched, cand, author, raw_count, i,
                   skipped, opened, out_file, meta_file, exit_code>>

\* with open(args.out, "w") ...: json.dump(pubs, f, ...)
WriteOut ==
    /\ pc = "write_out"
    /\ opened' = opened \cup {"out"}
    /\ out_file' = pubs
    /\ pc' = "write_meta"
    /\ UNCHANGED fnVars
    /\ UNCHANGED <<args, attempts, waits, id_ok, searched, cand, author, raw_count, i,
                   pubs, skipped, meta_file, exit_code>>

\* the mapping `meta`
Meta ==
    [method |-> MetaMethod(args),
     raw_count_from_scholar |-> raw_count,
     written_count |-> Len(pubs),
     skipped_count |-> Len(skipped),
     skipped_reasons |-> Take(skipped, SampleLen)]

\* `if args.meta:` with open(args.meta, "w") ...: json.dump(meta, f, ...)
WriteMeta ==
    /\ pc = "write_meta"
    /\ args.meta
    /\ opened' = opened \cup {"meta"}
    /\ meta_file' = Meta
    /\ pc' = "validate"
    /\ UNCHANGED fnVars
    /\ UNCHANGED <<args, attempts, waits, id_ok, searched, cand, author, raw_count, i,
                   pubs, skipped, out_file, exit_code>>

NoMetaFile ==
    /\ pc = "write_meta"
    /\ ~args.meta
    /\ pc' = "validate"
    /\ UNCHANGED fnVars
    /\ UNCHANGED <<args, attempts, waits, id_ok, searched, cand, author, raw_count, i,
                   pubs, skipped, opened, out_file, meta_file, exit_code>>

\* `if len(pubs) < raw_count:` ... `if args.strict: sys.exit(2)`; else main() returns
Validate ==
    /\ pc = "validate"
    /\ exit_code' = ExitStatus(Len(pubs), raw_count, args.strict)
    /\ pc' = "exit"
    /\ UNCHANGED fnVars
    /\ UNCHANGED <<args, attempts, waits, id_ok, searched, cand, author, raw_count, i,
                   pubs, skipped, opened, out_file, meta_file>>

Next ==
    \/ NoId
    \/ IdLookupSucceeds
    \/ IdLookupFailsRetry
    \/ IdLookupGivesUp
    \/ NameSearchStart
    \/ NameCandidateSkipped
    \/ NameCandidateReturned
    \/ NameSearchExhausted
    \/ NameSearchRaises
    \/ NoNameSearch
    \/ ResolutionFails
    \/ ReadRawList
    \/ FillRaises
    \/ NoTitle
    \/ AppendRecord
    \/ DedupStep
    \/ SortStep
    \/ SelectStep
    \/ WriteOut
    \/ WriteMeta
    \/ NoMetaFile
    \/ Validate

Spec == Init /\ [][Next]_vars

-----------------------------------------------------------------------------
(* _pick_venue and _best_url applied to bounded inputs *)

\* main() is not running
MainIdle ==
    /\ args = [id |-> FALSE, name |-> FALSE, strict |-> FALSE, meta |-> FALSE,
               selected |-> 0, sleep |-> "finite"]
    /\ pc = "idle"
    /\ attempts = 0
    /\ waits = <<>>
    /\ id_ok = FALSE
    /\ searched = FALSE
    /\ cand = 0
    /\ author = "none"
    /\ raw_count = 0
    /\ i = 0
    /\ pubs = <<>>
    /\ skipped = <<>>
    /\ opened = {}
    /\ out_file = <<>>
    /\ meta_file = NoMeta
    /\ exit_code = ExitOk

\* values of bib["journal"], bib["venue"], bib["conference"]
VenueInputs ==
    { <<>>,
      <<"N","a","t","u","r","e">>,
      <<"I","E","E","E"," "," ","T","r","a","n","s">>,
      <<"C","R","I","S"," ","P","K"," ","r","e","c","o","r","d">>,
      <<" ","R","e","p","o","s","i","t","o","r","y"," ">>,
      <<"C","R","I","S"," "," ","P","K">>,
      <<"c","r","i","s","TAB","p","k">> }

VenueInit ==
    /\ MainIdle
    /\ fpc = "call"
    /\ bib \in [journal : VenueInputs, venue : VenueInputs, conference : VenueInputs]
    /\ pfull = <<>>
    /\ result = <<>>

CallPickVenue ==
    /\ fpc = "call"
    /\ result' = pick_venue(bib)
    /\ fpc' = "returned"
    /\ UNCHANGED <<bib, pfull>>
    /\ UNCHANGED mainVars

VenueNext == CallPickVenue

SpecVenue == VenueInit /\ [][VenueNext]_vars

\* values of bib["doi"]
DoiInputs ==
    { <<>>,
      <<" ">>,
      <<"1","0",".","1","/","x">>,
      <<" ","1","0",".","1","/","x"," ">>,
      <<"h","t","t","p","s",":","/","/","d","o","i",".","o","r","g","/","1","0",".","1","/","x">>,
      <<"H","T","T","P","S",":","/","/","D","O","I",".","O","R","G","/","1","0",".","1","/","X">>,
      <<"d","o","i",":","1","0",".","1","/","x">>,
      <<"h","t","t","p",":","/","/","d","x",".","d","o","i",".","o","r","g","/","1","0",".","1","/","x">> }

UrlInit ==
    /\ MainIdle
    /\ fpc = "call"
    /\ bib \in [doi : DoiInputs]
    /\ pfull \in [eprint_url : {<<>>, <<"e">>}, pub_url : {<<>>, <<"p">>},
                  author_pub_url : {<<>>, <<"u">>}]
    /\ result = <<>>

CallBestUrl ==
    /\ fpc = "call"
    /\ result' = best_url(pfull, bib)
    /\ fpc' = "returned"
    /\ UNCHANGED <<bib, pfull>>
    /\ UNCHANGED mainVars

\* the returned URL is given back as the DOI of a second call
CallBestUrlAgain ==
    /\ fpc = "returned"
    /\ result # <<>>
    /\ bib' = [doi |-> result]
    /\ result' = best_url(pfull, bib')
    /\ fpc' = "returned_again"
    /\ UNCHANGED pfull
    /\ UNCHANGED mainVars

UrlNext == CallBestUrl \/ CallBestUrlAgain

SpecUrl == UrlInit /\ [][UrlNext]_vars

-----------------------------------------------------------------------------
(* Properties *)

AfterDedup == {"sort", "select", "write_out", "write_meta", "validate", "exit"}
AfterSort == {"select", "write_out", "write_meta", "validate", "exit"}
AfterSelect == {"write_out", "write_meta", "validate", "exit"}

NoTwoWithSameKey(p) ==
    \A a, b \in 1..Len(p) :
        a # b => <<Lower(p[a].title), p[a].year>> # <<Lower(p[b].title), p[b].year>>

\* the positions of p that hold the first record of their key
FirstOfKey(p) ==
    {k \in 1..Len(p) :
        \A j \in 1..(k - 1) :
            <<Lower(Strip(p[j].title)), p[j].year>> # <<Lower(Strip(p[k].title)), p[k].year>>}

\* d is p restricted to the positions FirstOfKey(p), in input order
KeepsFirstOfEachKey(p, d) ==
    LET keep == FirstOfKey(p)
        nth(n) == CHOOSE k \in keep : Cardinality({j \in keep : j <= k}) = n
    IN /\ Len(d) = Cardinality(keep)
       /\ \A n \in 1..Len(d) : d[n] = p[nth(n)]

\* C1: the deduplication step keeps exactly one record per key (lowercased trimmed
\* title, year), the first one in input order, and so neither the list after the
\* step nor the written list holds two records with the same (lowercased title, year).
C1_DedupKeepsFirstPerKey ==
    /\ [](/\ (pc \in AfterDedup /\ author # "none") => NoTwoWithSameKey(pubs)
          /\ NoTwoWithSameKey(out_file))
    /\ [][(pc = "loop" /\ pc' = "sort") => KeepsFirstOfEachKey(pubs, pubs')]_vars

\* a later record was dropped for a key that differs only in case
C1_Witness ==
    /\ pc = "exit"
    /\ "out" \in opened
    /\ args.sleep = "finite"
    /\ raw_count = 2
    /\ skipped = <<>>
    /\ Len(out_file) = 1
    /\ out_file[1].title = <<"a">>

\* C2: a run that reaches the validation has written the output (and the metadata
\* file when requested) and exits 2 when fewer records were written than the raw
\* list held and --strict is set, and 0 otherwise; status 1 is the resolution failure.
C2_StrictExit ==
    pc = "exit" =>
        IF "out" \in opened
        THEN /\ out_file = pubs
             /\ args.meta => ("meta" \in opened /\ meta_file.written_count = Len(out_file)
                              /\ meta_file.raw_count_from_scholar = raw_count)
             /\ ~args.meta => "meta" \notin opened
             /\ (Len(out_file) < raw_count /\ args.strict) => exit_code = 2
             /\ (Len(out_file) < raw_count /\ ~args.strict) => exit_code = 0
             /\ Len(out_file) = raw_count => exit_code = 0
             /\ Len(out_file) <= raw_count
        ELSE exit_code = 1 /\ opened = {}

C2_Witness ==
    /\ pc = "exit"
    /\ exit_code = 2
    /\ args.strict
    /\ opened = {"out", "meta"}
    /\ Len(out_file) < raw_count

\* C3: the name search is attempted iff the identifier lookup yielded no profile (no
\* id, or all its attempts failed) and a name was given; without a profile from
\* either method the run ends with status 1, no detail fetched and no file opened.
C3_FallbackAndFailure ==
    /\ searched => (~id_ok /\ args.name /\ (args.id => attempts = MaxAttempts))
    /\ (pc \notin {"resolve_id", "resolve_name"} /\ ~id_ok /\ args.name) => searched
    /\ id_ok => (args.id /\ author = "by_id")
    /\ author = "none" =>
          /\ pc \in {"resolve_id", "resolve_name", "name_search", "resolved", "exit"}
          /\ i = 0
          /\ opened = {}
          /\ pc = "exit" => exit_code = 1
    /\ (pc = "exit" /\ exit_code = 1) => (i = 0 /\ opened = {})

C3_Witness ==
    /\ pc = "exit"
    /\ exit_code = 1
    /\ args.id
    /\ attempts = MaxAttempts
    /\ searched
    /\ cand = MaxCands
    /\ author = "none"

\* C4: every raw record ends as exactly one appended record or exactly one skip
\* entry: while the loop runs, records appended + skip entries = records visited,
\* after it the sum is raw_count, and no record has an empty title.
C4_OneOutcomePerRecord ==
    /\ pc = "loop" => (Len(pubs) + Len(skipped) = i /\ i <= raw_count)
    /\ (pc \in AfterDedup /\ author # "none") => (i = raw_count /\ Len(skipped) <= raw_count)
    /\ \A k \in 1..Len(pubs) : pubs[k].title # <<>>

\* C6: the metadata's method is "id" exactly when the identifier lookup produced the
\* profile and "name+affil" exactly when the name search produced it.
C6_MethodIsTheOneUsed ==
    "meta" \in opened =>
        /\ meta_file.method = "id" <=> author = "by_id"
        /\ meta_file.method = "name+affil" <=> author = "by_name"

\* C7: after the final assembly exactly the first min(max(0, --selected), written)
\* records are selected and all others are not; the flag is a boolean on every record.
SelectedAsClaimed(p, selected) ==
    LET n == IF selected < 0 THEN 0 ELSE selected
        m == IF n < Len(p) THEN n ELSE Len(p)
    IN /\ \A k \in 1..Len(p) : p[k].selected \in BOOLEAN
       /\ {k \in 1..Len(p) : p[k].selected} = 1..m

C7_FirstNSelected ==
    /\ (pc \in AfterSelect /\ author # "none") => SelectedAsClaimed(pubs, args.selected)
    /\ "out" \in opened => SelectedAsClaimed(out_file, args.selected)

C7_Witness ==
    /\ "out" \in opened
    /\ args.selected = 1
    /\ Len(out_file) = 2
    /\ out_file[1].selected
    /\ ~out_file[2].selected

\* C8: the written list is a permutation of the deduplicated records in descending
\* (year, title) order: of two adjacent records the earlier has the greater year, or
\* the same year and a title not less; records of year 0 follow all records of known year.
DescendingByYearTitle(p) ==
    /\ \A k \in 1..(Len(p) - 1) :
          \/ p[k].year > p[k + 1].year
          \/ p[k].year = p[k + 1].year /\ ~StrLess(p[k].title, p[k + 1].title)
    /\ \A a, b \in 1..Len(p) : (p[a].year = 0 /\ p[b].year > 0) => b < a

IsPermutation(p, q) ==
    /\ Len(p) = Len(q)
    /\ \A r \in {p[k] : k \in 1..Len(p)} \cup {q[k] : k \in 1..Len(q)} :
          Cardinality({k \in 1..Len(p) : p[k] = r}) = Cardinality({k \in 1..Len(q) : q[k] = r})

C8_SortedDescending ==
    /\ [](/\ (pc \in AfterSort /\ author # "none") => DescendingByYearTitle(pubs)
          /\ DescendingByYearTitle(out_file))
    /\ [][(pc = "sort" /\ pc' = "select") => IsPermutation(pubs, pubs')]_vars

C8_Witness ==
    /\ "out" \in opened
    /\ Len(out_file) = 2
    /\ out_file[1].year = out_file[2].year
    /\ out_file[1].title = <<"b">>
    /\ out_file[2].title = <<"A">>

\* C9: the identifier lookup is called at most 5 times, never again after a call
\* succeeded, again after each failure while fewer than 5 calls were made (one wait
\* before each further call), every wait lies in 2..30 and the waits never shrink and
\* at most double; after the 5th failure the lookup is given up.
C9_BoundedRetry ==
    /\ [](/\ attempts <= 5
          /\ \A k \in 1..Len(waits) : waits[k] >= 2 /\ waits[k] <= 30
          /\ \A k \in 1..(Len(waits) - 1) :
                waits[k] <= waits[k + 1] /\ waits[k + 1] <= 2 * waits[k]
          /\ (pc = "resolve_id" /\ args.id) => (~id_ok /\ attempts < 5 /\ Len(waits) = attempts)
          /\ (pc # "resolve_id" /\ args.id) => Len(waits) = attempts - 1
          /\ (pc # "resolve_id" /\ args.id /\ ~id_ok) => attempts = 5
          /\ ~args.id => attempts = 0)
    /\ [][id_ok => attempts' = attempts]_vars

C9_Witness ==
    /\ pc = "resolve_name"
    /\ ~id_ok
    /\ attempts = 5
    /\ waits = <<2, 2, 4, 8>>

\* C5: the venue returned by _pick_venue never contains, lowercased, a substring of
\* the block-list, whatever the journal, venue and conference candidates are.
C5_VenueHasNoBlockedMarker ==
    fpc = "returned" => ~HasBadToken(Lower(result))

InResolverForm(doi) == StartsWith(Lower(doi), <<"h","t","t","p","s",":","/","/","d","o","i",".","o","r","g","/">>)
InBareForm(doi) == StartsWith(Lower(doi), <<"1","0",".">>)

AlternateAsClaimed(pf) ==
    IF pf.eprint_url # <<>> THEN pf.eprint_url
    ELSE IF pf.pub_url # <<>> THEN pf.pub_url
    ELSE pf.author_pub_url

====
